---------------------------- MODULE Spec2Model ----------------------------
(* Audio visualizer: the clip-segmented capture controller of js/app.js   *)
(* (handleStart / handlePause / handleResume / handleStop and the         *)
(* MediaRecorder callbacks) together with the render loop and frame-rate  *)
(* gate of js/visualizer.js (AudioVisualizer.loop / pause / stop).        *)
(*                                                                        *)
(* JavaScript runs one task at a time, so every action below is one task: *)
(* an event handler up to its first real suspension, the continuation of  *)
(* an await, or one host callback.  An await on an already settled        *)
(* promise resumes in a microtask, before any other task, and is part of  *)
(* the same action.                                                       *)
EXTENDS Integers, Sequences, FiniteSets, TLC

VARIABLES
    \* ---- js/app.js globals
    appState,          \* 'idle' | 'recording' | 'paused'
    clipCounter,       \* let clipCounter = 0
    mediaRecorder,     \* 0 = undefined, else index into recorders
    recordedChunks,    \* fragments pushed by ondataavailable
    downloadContainer, \* the links appended by createDownloadLink
    startBtnDisabled,  \* elements.startBtn.disabled
    \* ---- host objects
    hasMediaRecorder,  \* window.MediaRecorder exists
    recorders,         \* every MediaRecorder instance created so far
    sinkEvents,        \* queued dataavailable+stop tasks of stopped recorders
    audioSrc,          \* visualizer.audioPlayer.src is set
    audioPaused,       \* visualizer.audioPlayer.paused
    currentTime,       \* visualizer.audioPlayer.currentTime
    audioContext,      \* "null" | "suspended" | "running"
    attempts,          \* handleStart calls suspended at an await
    \* ---- js/visualizer.js fields
    animationFrameId,  \* 0 = null, 1 = the id of a pending repaint callback
    orphanFrames,      \* pending repaint callbacks animationFrameId lost
    lastFrameTime,
    targetFrameInterval,
    animationFrame,
    settings,
    now,               \* the host clock, as seen by repaint timestamps
    pendingLoop,       \* start() left "setupAudio().then(() => this.loop())" to run
    dataArray,         \* "null", or the spectrum the analyser wrote last
    backgroundImage,   \* "null" or an image
    backgroundVideo,   \* "null" or a video element
    cachedBackground,  \* "null" or the offscreen raster: what it shows, at what size
    backgroundNeedsUpdate,
    canvas,            \* the size of this.canvas
    videoLoads,        \* video elements whose loadedmetadata has not fired yet
    imageLoads,        \* Image elements of handleImageUpload not loaded yet
    playing,           \* video elements that are playing
    requested,         \* the background asked for last (observation only)
    \* ---- js/app.js overlays
    textOverlays,
    overlayImages,
    overlaySettings,
    activeOverlay,
    activeTextOverlay,
    drags,             \* mousedown / touchstart events so far (observation only)
    \* ---- history (observation only, never read by the program)
    log,               \* capture requests issued, in order
    lastEvent,         \* the task that ran last and how it ended
    sequential,        \* every request so far was issued when nothing was pending
    hostFault,         \* a host call failed or a handleStart was caught, so far
    intoRecording,     \* assignments appState = 'recording' from another state
    outOfRecording,    \* pause / stop requests that left 'recording'
    fed,               \* timestamps fed to a scheduler on its own, in order
    decisions,         \* for each of them: was a frame computed
    lastFrame,         \* what the last draw() put on the canvas
    ctx,               \* drawing state of the canvas' 2D context
    painted            \* the draws of the last render and the shadow each got

appVars   == <<appState, clipCounter, mediaRecorder, recordedChunks,
               downloadContainer, startBtnDisabled>>
hostVars  == <<hasMediaRecorder, recorders, sinkEvents, audioSrc, audioPaused,
               currentTime, audioContext, attempts>>
loopVars  == <<animationFrameId, orphanFrames, lastFrameTime,
               targetFrameInterval, animationFrame, settings, now>>
histVars  == <<log, lastEvent, sequential, hostFault, intoRecording,
               outOfRecording, fed, decisions>>
\* what one computed frame reads and writes besides loopVars
renderVars == <<ctx, painted>>
frameVars == <<dataArray, cachedBackground, backgroundNeedsUpdate, lastFrame,
               renderVars>>
loadVars  == <<videoLoads, imageLoads, playing, requested>>
bgVars    == <<backgroundImage, backgroundVideo, canvas, loadVars>>
overlayVars == <<textOverlays, overlayImages, overlaySettings, activeOverlay,
                 activeTextOverlay, drags>>
\* what the capture requests and the repaint callback leave alone
sceneVars == <<bgVars, pendingLoop, overlayVars>>
vars      == <<appVars, hostVars, loopVars, histVars, frameVars, sceneVars>>

\* ------------------------------------------------------------------ bounds
MaxRequests == 4     \* capture requests per behaviour
MaxPos      == 1     \* audio positions beyond 0 that are told apart
MaxTime     == 40    \* last repaint timestamp of the capture model (ms)
MaxFeed     == 4     \* timestamps fed to a scheduler on its own
MaxPhase    == 3     \* start() is not called once animationFrame reached this
MaxDrags    == 2     \* mousedown / touchstart events per behaviour

TickDeltas  == {10, 40}            \* ms between two repaint callbacks
FeedTimes   == {0, 10, 20, 30, 40} \* timestamps fed to a scheduler on its own

FrameRates  == {30, 60}            \* values of the frameRate select
Speeds      == {1, 2}              \* values of the animationSpeed slider
ColorThemes == {"default", "rainbow"}
BarStyles   == {"gradient", "solid", "circle", "wave", "spectrum"}
Spectra     == {"silence", "loud"} \* what getByteFrequencyData may write
Images      == {"imgA", "imgB"}
Videos      == {"vid1", "vid2"}
CanvasSizes == {720, 1080}         \* canvas heights of the videoQuality map
\* where the pointer goes down (Points) and moves to (MovePoints), in canvas
\* coordinates
Points      == {[x |-> 110, y |-> 140], [x |-> 110, y |-> 100],
                [x |-> 600, y |-> 300], [x |-> 20, y |-> 20]}
MovePoints  == {[x |-> 600, y |-> 300], [x |-> 20, y |-> 20]}
Contents    == {"", "Hi"}          \* what a text input may hold
Pictures    == {[width |-> 200, height |-> 200]}   \* decoded overlay images
UploadSlots == {1, 4}              \* image slots that get an upload
SizedSlots  == {4}                 \* image slots whose controls are used
Sizes       == {50, 100}           \* values of an overlay's size slider
Opacities   == {100}               \* values of an overlay's opacity slider
GlowLevels  == {0, 10}             \* values of the glowIntensity slider
BarCounts   == {1, 7, 300}         \* values of the barCount slider
MirrorModes == {"none", "horizontal", "vertical"}
LayoutStyles == {"gradient", "solid"}

\* ------------------------------------------------------------- constants
DefaultFrameRate == 30
TextShadowColor  == "rgba(0,0,0,0.7)"
TextShadowBlur   == 4
TextShadowOffset == 2
MsPerSecond      == 1000
DefaultBarCount  == 64
FrequencyBinCount == 256   \* analyser.fftSize = 512, bufferLength = fftSize / 2
DefaultCanvas    == 720
HueStep          == 120
SchemeLength     == 3     \* colours of a scheme
FullCircle       == 360
\* the timestamp of a loop() call that passes none; any arithmetic on it is NaN
Undefined        == -1
\* activeOverlay = null, activeTextOverlay = null
NoTarget         == -1
\* overlayImages[i] = null
NoImage  == [width |-> 0, height |-> 0]
\* cachedBackground = null
NoRaster == [image |-> "null", size |-> 0]
\* nothing was drawn by draw() yet
NoFrame == [drawn |-> FALSE, media |-> "null", size |-> 0, recomputed |-> FALSE,
            theme |-> "default", hues |-> <<>>, phase |-> 0, speed |-> 0,
            style |-> "gradient", data |-> "null", marks |-> 0,
            layout |-> [barWidth |-> [num |-> 0, den |-> 1],
                        gap |-> [num |-> 0, den |-> 1]],
            mirror |-> "none", passes |-> <<>>, glow |-> 0,
            samples |-> <<>>, colorIndices |-> <<>>]

\* ----------------------------------------------------------------- helpers
Last(s) == s[Len(s)]

Event(op, res, before) == [op |-> op, res |-> res, before |-> before]

\* 1000 / frameRate, kept exact as a fraction
TargetInterval(frameRate) == [num |-> MsPerSecond, den |-> frameRate]

\* timestamp - this.lastFrameTime < this.targetFrameInterval; with an
\* undefined operand the difference is NaN and every comparison is false
FrameSkippedInverted(timestamp) ==
    /\ timestamp # Undefined /\ lastFrameTime # Undefined
    /\ (timestamp - lastFrameTime) * targetFrameInterval.den >= targetFrameInterval.num

FrameSkipped(timestamp) ==
    /\ timestamp # Undefined /\ lastFrameTime # Undefined
    /\ (timestamp - lastFrameTime) * targetFrameInterval.den < targetFrameInterval.num

Min(a, b) == IF a < b THEN a ELSE b

\* this.bufferLength: 0 from the constructor, frequencyBinCount once
\* setupAudio created the analyser and, on the next line, dataArray
BufferLength(data) == IF data = "null" THEN 0 ELSE FrequencyBinCount

\* getColorScheme: the three hues of the rainbow theme; the other themes
\* are fixed tables looked up by name
GetColorSchemeFromData(data) ==
    IF settings.colorTheme = "rainbow"
    THEN [i \in 1..3 |->
            (animationFrame * settings.animationSpeed + (i - 1) * HueStep
               + BufferLength(data)) % FullCircle]
    ELSE <<>>

GetColorScheme(data) ==
    IF settings.colorTheme = "rainbow"
    THEN [i \in 1..3 |->
            (animationFrame * settings.animationSpeed + (i - 1) * HueStep) % FullCircle]
    ELSE <<>>

\* how many bars (bar styles) or vertices (wave) one draw method puts down:
\* Math.min(barCount, bufferLength) for the bar styles, bufferLength for wave
MarksDrawn(style, data) ==
    IF style = "wave" THEN BufferLength(data)
    ELSE Min(settings.barCount, BufferLength(data))

\* Math.floor((i / barsToUse) * this.bufferLength), the sample bar i reads
DataIndexOfNextBar(i, barsToUse, bufferLength) ==
    ((i + 1) * bufferLength) \div barsToUse

DataIndex(i, barsToUse, bufferLength) == (i * bufferLength) \div barsToUse

\* Math.floor((i / barsToUse) * colors.length), the colour of bar i
ColorIndex(i, barsToUse) == (i * SchemeLength) \div barsToUse

\* the sample indices the loop of drawGradientBars, drawSolidBars or
\* drawCircularBars computes, bar after bar (bar i at place i + 1)
SampleIndices(style, data) ==
    IF style \in {"gradient", "solid", "circle"}
    THEN LET barsToUse == Min(settings.barCount, BufferLength(data))
         IN  [k \in 1..barsToUse |-> DataIndex(k - 1, barsToUse, BufferLength(data))]
    ELSE <<>>

\* the colour indices drawSolidBars and drawCircularBars compute
ColorIndices(style, data) ==
    IF style \in {"solid", "circle"}
    THEN LET barsToUse == Min(settings.barCount, BufferLength(data))
         IN  [k \in 1..barsToUse |-> ColorIndex(k - 1, barsToUse)]
    ELSE <<>>

\* canvas.width for a canvas height of the videoQuality map (16 : 9)
CanvasWidth == (canvas * 16) \div 9

\* exact arithmetic on non-negative fractions in lowest terms
RECURSIVE GCD(_, _)
GCD(a, b) == IF b = 0 THEN a ELSE GCD(b, a % b)

Frac(n, d) == LET g == GCD(n, d) IN [num |-> n \div g, den |-> d \div g]

Whole(n) == [num |-> n, den |-> 1]

FracTimes(a, b) == Frac(a.num * b.num, a.den * b.den)

FracOver(a, b) == Frac(a.num * b.den, a.den * b.num)

FracPlus(a, b) ==
    LET l == (a.den * b.den) \div GCD(a.den, b.den)
    IN  Frac(a.num * (l \div a.den) + b.num * (l \div b.den), l)

FracMinus(a, b) ==
    LET l == (a.den * b.den) \div GCD(a.den, b.den)
    IN  Frac(a.num * (l \div a.den) - b.num * (l \div b.den), l)

\* the factor 0.2 of the bar layout, taken as one fifth
GapShare == [num |-> 1, den |-> 5]

\* with no bar to draw the divisions are by zero and nothing is laid out
NoLayout == [barWidth |-> Whole(0), gap |-> Whole(0)]

\* the layout of drawGradientBars and drawSolidBars: totalGapSpace,
\* availableSpace, barWidth and gap for barsToUse bars on a canvas of the
\* given width
BarLayoutGapPerBar(barsToUse, width) ==
    IF barsToUse < 1 THEN NoLayout
    ELSE LET perBar         == FracOver(Whole(width), Whole(barsToUse))
             totalGapSpace  == FracTimes(FracTimes(Whole(barsToUse), perBar), GapShare)
             availableSpace == FracMinus(Whole(width), totalGapSpace)
         IN  [barWidth |-> FracOver(availableSpace, Whole(barsToUse)),
              gap      |-> FracTimes(perBar, GapShare)]

BarLayout(barsToUse, width) ==
    IF barsToUse < 1 THEN NoLayout
    ELSE LET perBar         == FracOver(Whole(width), Whole(barsToUse))
             totalGapSpace  == FracTimes(FracTimes(Whole(barsToUse - 1), perBar), GapShare)
             availableSpace == FracMinus(Whole(width), totalGapSpace)
         IN  [barWidth |-> FracOver(availableSpace, Whole(barsToUse)),
              gap      |-> FracTimes(perBar, GapShare)]

\* the context's transform as x' = sx * x + tx, y' = sy * y + ty; scale and
\* translate apply to the coordinates before the transform in force
Identity == [sx |-> 1, tx |-> 0, sy |-> 1, ty |-> 0]

Scale(m, kx, ky) == [m EXCEPT !.sx = @ * kx, !.sy = @ * ky]

TranslateAfter(m, dx, dy) == [m EXCEPT !.tx = @ + dx, !.ty = @ + dy]

Translate(m, dx, dy) == [m EXCEPT !.tx = m.sx * dx + @, !.ty = m.sy * dy + @]

\* applyMirrorMode(drawFn): the calls drawFn(startX, 1) it makes and the
\* transform each runs under; restore() brings the saved state back
ApplyMirrorMode(mode, width, height) ==
    IF mode = "horizontal"
    THEN <<[startX |-> width \div 2, m |-> Identity],
           [startX |-> width \div 2,
            m |-> Translate(Scale(Identity, -1, 1), -width, 0)]>>
    ELSE IF mode = "vertical"
    THEN <<[startX |-> 0, m |-> Identity],
           [startX |-> 0, m |-> Translate(Scale(Identity, 1, -1), 0, -height)]>>
    ELSE <<[startX |-> 0, m |-> Identity]>>

\* the bar passes of one draw(): each reads this.dataArray as it is then
BarPasses(style, mode, width, height, data) ==
    IF style \in {"gradient", "solid"}
    THEN LET calls == ApplyMirrorMode(mode, width, height)
         IN  [k \in 1..Len(calls) |->
                [startX |-> calls[k].startX, m |-> calls[k].m, data |-> data]]
    ELSE <<>>

\* clipCounter++ / ++clipCounter
NextClipStale(c) == c

NextClip(c) == c + 1

\* createDownloadLink: the number in the download's name and label
DownloadTagIndex == Len(downloadContainer)

DownloadTag == clipCounter

\* the early returns of the four handlers
StartEnabled == appState = "idle"

PauseEnabled == appState = "recording"

ResumeEnabledLoose == appState # "recording"

ResumeEnabled == appState = "paused"

StopEnabled == appState # "idle"

\* nothing of the capture machinery is pending
Quiescent == attempts = {} /\ sinkEvents = <<>>

SinkRecording == \E i \in 1..Len(recorders) : recorders[i].state = "recording"

\* ------------------------------------------------------ the 2D context
\* The part of the context's drawing state that outlives a draw call.  A
\* fresh context, and one whose canvas was just given a width or height,
\* has the host's defaults.
DefaultCtx ==
    [shadowColor |-> "transparent", shadowBlur |-> 0,
     shadowOffsetX |-> 0, shadowOffsetY |-> 0, textAlign |-> "start"]

\* the shadow a draw gets under state c: the host draws one only if the
\* colour is not transparent and the blur or an offset is non-zero
ShadowOf(c) ==
    IF /\ c.shadowColor # "transparent"
       /\ (c.shadowBlur # 0 \/ c.shadowOffsetX # 0 \/ c.shadowOffsetY # 0)
    THEN c.shadowColor
    ELSE "none"

\* ctx.measureText(t.content).width: a host measurement, here one em per
\* text, nothing for the empty string
MeasureText(t) == IF t.content = "" THEN 0 ELSE t.size

\* where fillText(content, x, y) puts the left edge of the text
TextLeft(align, t) ==
    IF align = "center" THEN t.x - MeasureText(t) \div 2 ELSE t.x

\* drawBackgroundOnly(): the fill, the fitted media, or without media and
\* with no repaint callback stored the centred placeholder label
DrawBackgroundOnly(c, media, running) ==
    IF media = "null" /\ ~running THEN [c EXCEPT !.textAlign = "center"] ELSE c

\* the glow of a draw method: set when glowIntensity > 0, and
\* "this.ctx.shadowBlur = 0" at its end
VisualizerPass(c, glow) ==
    LET lit == IF glow > 0
               THEN [c EXCEPT !.shadowBlur = glow, !.shadowColor = "glow"]
               ELSE c
    IN  [lit EXCEPT !.shadowBlur = 0]

\* drawOverlays, the images: every populated slot in index order
ImageOps(c, images, slots) ==
    LET sel == SelectSeq(<<0, 1, 2, 3, 4>>, LAMBDA i : images[i] # NoImage)
    IN  [k \in 1..Len(sel) |->
           [kind |-> "image", slot |-> sel[k], flag |-> FALSE,
            shadow |-> ShadowOf(c), x |-> slots[sel[k]].x,
            left |-> slots[sel[k]].x]]

\* drawOverlays, the texts from slot i on: state and draws
RECURSIVE DrawTexts(_, _, _)
DrawTexts(i, c, texts) ==
    IF i > 1 THEN [ctx |-> c, ops |-> <<>>]
    ELSE IF texts[i].content = "" THEN DrawTexts(i + 1, c, texts)
    ELSE LET c1   == IF texts[i].shadow
                     THEN [c EXCEPT !.shadowColor = TextShadowColor,
                                    !.shadowBlur = TextShadowBlur,
                                    !.shadowOffsetX = TextShadowOffset,
                                    !.shadowOffsetY = TextShadowOffset]
                     ELSE c
             op   == [kind |-> "text", slot |-> i, flag |-> texts[i].shadow,
                      shadow |-> ShadowOf(c1), x |-> texts[i].x,
                      left |-> TextLeft(c1.textAlign, texts[i])]
             rest == DrawTexts(i + 1, [c1 EXCEPT !.shadowColor = "transparent"],
                               texts)
         IN  [ctx |-> rest.ctx, ops |-> <<op>> \o rest.ops]

\* drawOverlays(ctx)
DrawOverlays(c, images, slots, texts) ==
    LET t == DrawTexts(0, c, texts)
    IN  [ctx |-> t.ctx, ops |-> ImageOps(c, images, slots) \o t.ops]

\* drawInitialState() on a context in state c
DrawInitialStateOn(c, media, running, images, slots, texts) ==
    LET o == DrawOverlays(DrawBackgroundOnly(c, media, running), images, slots, texts)
    IN  [ctx |-> o.ctx, painted |-> [background |-> ShadowOf(c), ops |-> o.ops]]

\* what draw() does to the context and what its draws get
DrawOn(c, glow, images, slots, texts) ==
    LET o == DrawOverlays(VisualizerPass(c, glow), images, slots, texts)
    IN  [ctx |-> o.ctx, painted |-> [background |-> ShadowOf(c), ops |-> o.ops]]

\* this.backgroundVideo || this.backgroundImage
Media(video, image) == IF video # "null" THEN video ELSE image

\* a call of drawInitialState() at the end of a handler that leaves the
\* context in state c and the scene as given
DrawInitialStateCall(c, media, running, images, slots, texts) ==
    LET r == DrawInitialStateOn(c, media, running, images, slots, texts)
    IN  ctx' = r.ctx /\ painted' = r.painted

\* ------------------------------------------------------------ constructor
VisualizerInit ==
    /\ animationFrameId = 0
    /\ orphanFrames = 0
    /\ lastFrameTime = 0
    /\ targetFrameInterval = TargetInterval(DefaultFrameRate)
    /\ animationFrame = 0
    /\ settings = [frameRate |-> DefaultFrameRate, animationSpeed |-> 1,
                   colorTheme |-> "default", barStyle |-> "gradient",
                   barCount |-> DefaultBarCount, mirrorMode |-> "none",
                   glowIntensity |-> 0]
    /\ now = 0
    /\ pendingLoop = FALSE
    /\ dataArray = "null"
    /\ backgroundImage = "null"
    /\ backgroundVideo = "null"
    /\ cachedBackground = NoRaster
    /\ backgroundNeedsUpdate = TRUE
    /\ canvas = DefaultCanvas
    /\ videoLoads = {}
    /\ imageLoads = {}
    /\ playing = {}
    /\ requested = "null"

HistInit ==
    /\ log = <<>>
    /\ lastEvent = Event("init", "ok", 0)
    /\ sequential = TRUE
    /\ hostFault = FALSE
    /\ intoRecording = 0
    /\ outOfRecording = 0
    /\ fed = <<>>
    /\ decisions = <<>>
    /\ lastFrame = NoFrame

\* the overlay globals of js/app.js, slots numbered as there
OverlayInit ==
    /\ overlayImages = [i \in 0..4 |-> NoImage]
    /\ overlaySettings = [i \in 0..4 |->
           [x |-> 100 + i * 50, y |-> 100 + i * 50, size |-> 50,
            opacity |-> 80, isDragging |-> FALSE,
            dragOffset |-> [x |-> 0, y |-> 0]]]
    /\ activeOverlay = NoTarget
    /\ textOverlays = [i \in 0..1 |->
           [content |-> "", x |-> 100, y |-> 100 + i * 50, size |-> 32 - i * 8,
            shadow |-> TRUE, isDragging |-> FALSE, dragOffset |-> [x |-> 0, y |-> 0]]]
    /\ activeTextOverlay = NoTarget
    /\ drags = 0

AppInit ==
    /\ appState = "idle"
    /\ clipCounter = 0
    /\ mediaRecorder = 0
    /\ recordedChunks = <<>>
    /\ downloadContainer = <<>>
    /\ recorders = <<>>
    /\ sinkEvents = <<>>
    /\ audioSrc = FALSE
    /\ audioPaused = TRUE
    /\ currentTime = 0
    /\ audioContext = "null"
    /\ attempts = {}

\* checkRecordingSupport, run by the DOMContentLoaded handler: without
\* MediaRecorder the start button is disabled; with it the button keeps the
\* disabled attribute of the page, which the scripts do not determine.
\* the drawInitialState() of the DOMContentLoaded listener, on the fresh
\* context
RenderInit ==
    LET r == DrawInitialStateOn(DefaultCtx, "null", FALSE, overlayImages,
                                overlaySettings, textOverlays)
    IN  ctx = r.ctx /\ painted = r.painted

Init ==
    /\ AppInit /\ OverlayInit /\ VisualizerInit /\ HistInit /\ RenderInit
    /\ hasMediaRecorder \in BOOLEAN
    /\ startBtnDisabled \in (IF hasMediaRecorder THEN BOOLEAN ELSE {TRUE})


\* ------------------------------------------------------- host primitives
\* MediaRecorder.stop() on the recorder the global names: what it leaves and
\* whether the call raised.  undefined.stop() is a TypeError; stop() on an
\* inactive recorder returns at once on current hosts and raised
\* InvalidStateError on older ones; on a recording one it goes inactive and
\* queues the task that fires dataavailable and then stop.
SinkStop(m) ==
    IF m = 0
    THEN {[recorders |-> recorders, sinkEvents |-> sinkEvents, threw |-> TRUE]}
    ELSE IF recorders[m].state = "inactive"
    THEN {[recorders |-> recorders, sinkEvents |-> sinkEvents, threw |-> b] :
              b \in BOOLEAN}
    ELSE {[recorders |-> [recorders EXCEPT ![m].state = "inactive"],
           sinkEvents |-> Append(sinkEvents, [rec |-> m, seg |-> recorders[m].seg]),
           threw |-> FALSE]}

\* MediaRecorder.start() with the clip counter of the segment it begins:
\* undefined.start() is a TypeError, start() on a recording recorder raises
\* InvalidStateError, start() on an inactive one records or is refused by the
\* host (fault).
SinkStart(m, seg) ==
    IF m = 0
    THEN {[recorders |-> recorders, threw |-> TRUE, fault |-> FALSE]}
    ELSE IF recorders[m].state = "recording"
    THEN {[recorders |-> recorders, threw |-> TRUE, fault |-> FALSE]}
    ELSE {[recorders |-> [recorders EXCEPT ![m] = [state |-> "recording", seg |-> seg]],
           threw |-> FALSE, fault |-> FALSE],
          [recorders |-> recorders, threw |-> TRUE, fault |-> TRUE]}

\* audioPlayer.pause(): an element that is not paused becomes paused and its
\* pending play() promises are rejected (AbortError).
AbortedPlays ==
    IF audioPaused THEN attempts
    ELSE {IF a.pc = "awaitPlay" THEN [a EXCEPT !.pc = "playAborted"] ELSE a :
              a \in attempts}

AudioPauseCall ==
    /\ audioPaused' = TRUE
    /\ attempts' = AbortedPlays

\* setupAudio() raising: at "new AudioContext" nothing was assigned, at
\* createAnalyser the context was, at createMediaElementSource the analyser
\* and its zero-filled dataArray were too
SetupAudioThrows ==
    {[audioContext |-> "null", dataArray |-> "null"]} \cup
    {[audioContext |-> c, dataArray |-> d] :
        c \in {"suspended", "running"}, d \in {"null", "silence"}}

\* ------------------------------------------------------ AudioVisualizer
\* loop(timestamp).  origin tells who calls: "call" a handler, "tracked" the
\* repaint callback animationFrameId names, "orphan" a pending callback whose
\* id was overwritten.  The callback requested here becomes the tracked one;
\* a tracked callback that is still pending then is an orphan.
\* updateCachedBackground: a new offscreen canvas of the canvas' size with
\* backgroundImage fitted into it
UpdateCachedBackgroundKeepsFlag ==
    /\ cachedBackground' = [image |-> backgroundImage, size |-> canvas]
    /\ backgroundNeedsUpdate' = backgroundNeedsUpdate

UpdateCachedBackground ==
    /\ cachedBackground' = [image |-> backgroundImage, size |-> canvas]
    /\ backgroundNeedsUpdate' = FALSE

\* draw(): the background (the playing video itself, else the cached
\* raster, rebuilt first when it is missing or invalidated), then the
\* visualizer in the colours of getColorScheme, then the onDraw hook.
\* data is this.dataArray as the draw methods read it.
Draw(data) ==
    /\ IF backgroundVideo # "null"
       THEN UNCHANGED <<cachedBackground, backgroundNeedsUpdate>>
       ELSE IF backgroundNeedsUpdate \/ cachedBackground = NoRaster
       THEN UpdateCachedBackground
       ELSE UNCHANGED <<cachedBackground, backgroundNeedsUpdate>>
    /\ lastFrame' =
         [drawn      |-> TRUE,
          media      |-> IF backgroundVideo # "null" THEN backgroundVideo
                         ELSE cachedBackground'.image,
          size       |-> IF backgroundVideo # "null" THEN canvas
                         ELSE cachedBackground'.size,
          recomputed |-> /\ backgroundVideo = "null"
                         /\ (backgroundNeedsUpdate \/ cachedBackground = NoRaster),
          theme      |-> settings.colorTheme,
          hues       |-> GetColorScheme(data),
          phase      |-> animationFrame,
          speed      |-> settings.animationSpeed,
          style      |-> settings.barStyle,
          data       |-> data,
          marks      |-> MarksDrawn(settings.barStyle, data),
          layout     |-> IF settings.barStyle \in {"gradient", "solid"}
                         THEN BarLayout(Min(settings.barCount, BufferLength(data)),
                                        CanvasWidth)
                         ELSE NoLayout,
          mirror     |-> settings.mirrorMode,
          passes     |-> BarPasses(settings.barStyle, settings.mirrorMode,
                                   CanvasWidth, canvas, data),
          glow       |-> settings.glowIntensity,
          samples    |-> SampleIndices(settings.barStyle, data),
          colorIndices |-> ColorIndices(settings.barStyle, data)]
    /\ LET r == DrawOn(ctx, settings.glowIntensity, overlayImages,
                        overlaySettings, textOverlays)
       IN  ctx' = r.ctx /\ painted' = r.painted

\* analyser.getByteFrequencyData(dataArray), when there is an analyser
Polled == IF dataArray = "null" THEN {"null"} ELSE Spectra

LoopRearmsAfterGate(timestamp, origin) ==
    /\ animationFrameId' = IF FrameSkipped(timestamp) THEN 0 ELSE 1
    /\ orphanFrames' = CASE origin = "call"    -> orphanFrames + animationFrameId
                         [] origin = "tracked" -> orphanFrames
                         [] origin = "orphan"  -> orphanFrames - 1 + animationFrameId
    /\ IF FrameSkipped(timestamp)
       THEN UNCHANGED <<lastFrameTime, animationFrame, frameVars>>
       ELSE /\ lastFrameTime' = timestamp
            /\ \E data \in Polled : dataArray' = data /\ Draw(data)
            /\ animationFrame' = animationFrame + settings.animationSpeed
    /\ UNCHANGED <<targetFrameInterval, settings>>

LoopAdvancesOnSkip(timestamp, origin) ==
    /\ animationFrameId' = 1
    /\ orphanFrames' = CASE origin = "call"    -> orphanFrames + animationFrameId
                         [] origin = "tracked" -> orphanFrames
                         [] origin = "orphan"  -> orphanFrames - 1 + animationFrameId
    /\ animationFrame' = animationFrame + settings.animationSpeed
    /\ IF FrameSkipped(timestamp)
       THEN UNCHANGED <<lastFrameTime, frameVars>>
       ELSE /\ lastFrameTime' = timestamp
            /\ \E data \in Polled : dataArray' = data /\ Draw(data)
    /\ UNCHANGED <<targetFrameInterval, settings>>

Loop(timestamp, origin) ==
    /\ animationFrameId' = 1
    /\ orphanFrames' = CASE origin = "call"    -> orphanFrames + animationFrameId
                         [] origin = "tracked" -> orphanFrames
                         [] origin = "orphan"  -> orphanFrames - 1 + animationFrameId
    /\ IF FrameSkipped(timestamp)
       THEN UNCHANGED <<lastFrameTime, animationFrame, frameVars>>
       ELSE /\ lastFrameTime' = timestamp
            /\ \E data \in Polled : dataArray' = data /\ Draw(data)
            /\ animationFrame' = animationFrame + settings.animationSpeed
    /\ UNCHANGED <<targetFrameInterval, settings>>

\* pause() and stop(): cancel the callback animationFrameId names.  They are
\* called where no background video is set, so there is none to pause.
VisualizerPause ==
    /\ animationFrameId' = 0
    /\ UNCHANGED <<orphanFrames, lastFrameTime, targetFrameInterval,
                   animationFrame, settings, frameVars>>

\* stop() ends with drawInitialState(), after animationFrameId was cleared
VisualizerStop ==
    /\ animationFrameId' = 0
    /\ DrawInitialStateCall(ctx, Media(backgroundVideo, backgroundImage), FALSE,
                            overlayImages, overlaySettings, textOverlays)
    /\ UNCHANGED <<orphanFrames, lastFrameTime, targetFrameInterval,
                   animationFrame, settings, dataArray, cachedBackground,
                   backgroundNeedsUpdate, lastFrame>>

\* ------------------------------------------------------------- requests
Request(name) ==
    /\ Len(log) < MaxRequests
    /\ log' = Append(log, name)
    /\ sequential' = (sequential /\ Quiescent)
    /\ UNCHANGED <<fed, decisions, sceneVars>>

Ignored(name) ==
    /\ lastEvent' = Event(name, "ignored", 0)
    /\ UNCHANGED <<appVars, hostVars, loopVars, frameVars, hostFault, intoRecording,
                   outOfRecording>>

\* the catch block of handleStart
StartCaught(before) ==
    /\ appState' = "idle"
    /\ hostFault' = TRUE
    /\ lastEvent' = Event("start", "failed", before)

\* handleStart up to its first suspension.  setupAudio has no await inside,
\* so "await visualizer.setupAudio()" resumes in a microtask.
HandleStart ==
    /\ ~startBtnDisabled
    /\ Request("start")
    /\ \/ ~StartEnabled /\ Ignored("start")
       \/ /\ StartEnabled
          /\ clipCounter' = NextClip(clipCounter)
          /\ intoRecording' = intoRecording + 1
          /\ UNCHANGED <<mediaRecorder, recordedChunks, downloadContainer,
                         startBtnDisabled, hasMediaRecorder, recorders, sinkEvents,
                         audioSrc, currentTime, loopVars, cachedBackground,
                         backgroundNeedsUpdate, lastFrame, renderVars,
                         outOfRecording>>
          /\ \/ \* setupAudio throws
                /\ audioContext = "null"
                /\ \E o \in SetupAudioThrows :
                     audioContext' = o.audioContext /\ dataArray' = o.dataArray
                /\ StartCaught(clipCounter)
                /\ UNCHANGED <<audioPaused, attempts>>
             \/ \E actx \in (IF audioContext = "null" THEN {"suspended", "running"}
                                                     ELSE {audioContext}) :
                  /\ audioContext' = actx
                  /\ dataArray' = IF audioContext = "null" THEN "silence" ELSE dataArray
                  /\ \/ \* audioContext.resume() is awaited
                        /\ actx = "suspended"
                        /\ appState' = "recording"
                        /\ attempts' = attempts \cup
                               {[pc |-> "awaitResume", before |-> clipCounter]}
                        /\ lastEvent' = Event("start", "pending", clipCounter)
                        /\ UNCHANGED <<audioPaused, hostFault>>
                     \/ \* play() refused at once
                        /\ actx = "running"
                        /\ StartCaught(clipCounter)
                        /\ UNCHANGED <<audioPaused, attempts>>
                     \/ \* play() accepted, its promise is awaited
                        /\ actx = "running"
                        /\ appState' = "recording"
                        /\ audioPaused' = FALSE
                        /\ attempts' = attempts \cup
                               {[pc |-> "awaitPlay", before |-> clipCounter]}
                        /\ lastEvent' = Event("start", "pending", clipCounter)
                        /\ UNCHANGED hostFault

\* handleStart resumed after "await visualizer.audioContext.resume()"
StartAfterResume ==
    \E a \in attempts :
      /\ a.pc = "awaitResume"
      /\ UNCHANGED <<clipCounter, mediaRecorder, recordedChunks, downloadContainer,
                     startBtnDisabled, hasMediaRecorder, recorders, sinkEvents,
                     audioSrc, currentTime, loopVars, frameVars, log, sequential,
                     intoRecording, outOfRecording, fed, decisions, sceneVars>>
      /\ \/ \* resume() rejected
            /\ StartCaught(a.before)
            /\ attempts' = attempts \ {a}
            /\ UNCHANGED <<audioContext, audioPaused>>
         \/ \* resumed, play() refused at once
            /\ audioContext' = "running"
            /\ StartCaught(a.before)
            /\ attempts' = attempts \ {a}
            /\ UNCHANGED audioPaused
         \/ \* resumed, play() accepted, its promise is awaited
            /\ audioContext' = "running"
            /\ audioPaused' = FALSE
            /\ attempts' = (attempts \ {a}) \cup {[a EXCEPT !.pc = "awaitPlay"]}
            /\ lastEvent' = Event("start", "pending", a.before)
            /\ UNCHANGED <<appState, hostFault>>

\* handleStart resumed after "await playPromise": setupMediaRecorder(),
\* mediaRecorder.start(), visualizer.loop(0)
StartAfterPlay ==
    \E a \in attempts :
      /\ attempts' = attempts \ {a}
      /\ UNCHANGED <<clipCounter, recordedChunks, downloadContainer,
                     startBtnDisabled, hasMediaRecorder, sinkEvents, audioSrc,
                     audioPaused, currentTime, audioContext, now, log, sequential,
                     intoRecording, outOfRecording, fed, decisions, sceneVars>>
      /\ \/ \* the promise was rejected by a pause() in between
            /\ a.pc = "playAborted"
            /\ StartCaught(a.before)
            /\ UNCHANGED <<mediaRecorder, recorders, animationFrameId, orphanFrames,
                           lastFrameTime, targetFrameInterval, animationFrame, settings, frameVars>>
         \/ \* playing; setupMediaRecorder throws (always without MediaRecorder)
            /\ a.pc = "awaitPlay" /\ audioSrc
            /\ StartCaught(a.before)
            /\ UNCHANGED <<mediaRecorder, recorders, animationFrameId, orphanFrames,
                           lastFrameTime, targetFrameInterval, animationFrame, settings, frameVars>>
         \/ \* playing; recorder created, mediaRecorder.start() throws
            /\ a.pc = "awaitPlay" /\ audioSrc /\ hasMediaRecorder
            /\ recorders' = Append(recorders, [state |-> "inactive", seg |-> 0])
            /\ mediaRecorder' = Len(recorders) + 1
            /\ StartCaught(a.before)
            /\ UNCHANGED <<animationFrameId, orphanFrames, lastFrameTime,
                           targetFrameInterval, animationFrame, settings, frameVars>>
         \/ \* playing; recorder created and started, loop(0)
            /\ a.pc = "awaitPlay" /\ audioSrc /\ hasMediaRecorder
            /\ recorders' = Append(recorders, [state |-> "recording", seg |-> clipCounter])
            /\ mediaRecorder' = Len(recorders) + 1
            /\ Loop(0, "call")
            /\ lastEvent' = Event("start", "ok", a.before)
            /\ UNCHANGED <<appState, hostFault>>

HandlePause ==
    /\ Request("pause")
    /\ \/ ~PauseEnabled /\ Ignored("pause")
       \/ /\ PauseEnabled
          /\ appState' = "paused"
          /\ outOfRecording' = outOfRecording + 1
          /\ AudioPauseCall
          /\ VisualizerPause
          /\ \E o \in SinkStop(mediaRecorder) :
               /\ recorders' = o.recorders
               /\ sinkEvents' = o.sinkEvents
               /\ lastEvent' = Event("pause", IF o.threw THEN "threw" ELSE "ok", 0)
          /\ UNCHANGED <<clipCounter, mediaRecorder, recordedChunks, downloadContainer,
                         startBtnDisabled, hasMediaRecorder, audioSrc, currentTime,
                         audioContext, now, hostFault, intoRecording>>

HandleResume ==
    /\ Request("resume")
    /\ \/ ~ResumeEnabled /\ Ignored("resume")
       \/ /\ ResumeEnabled
          /\ appState' = "recording"
          /\ clipCounter' = NextClip(clipCounter)
          /\ intoRecording' = intoRecording + 1
          /\ Loop(0, "call")
          /\ \E allowed \in BOOLEAN, o \in SinkStart(mediaRecorder, NextClip(clipCounter)) :
               /\ audioPaused' = IF allowed THEN FALSE ELSE audioPaused
               /\ recorders' = o.recorders
               /\ hostFault' = (hostFault \/ ~allowed \/ o.fault)
               /\ lastEvent' = Event("resume", IF o.threw THEN "threw" ELSE "ok", 0)
          /\ UNCHANGED <<mediaRecorder, recordedChunks, downloadContainer,
                         startBtnDisabled, hasMediaRecorder, sinkEvents, audioSrc,
                         currentTime, audioContext, attempts, now, outOfRecording>>

HandleStop ==
    /\ Request("stop")
    /\ \/ ~StopEnabled /\ Ignored("stop")
       \/ /\ StopEnabled
          /\ UNCHANGED <<clipCounter, mediaRecorder, recordedChunks, downloadContainer,
                         startBtnDisabled, hasMediaRecorder, audioSrc, currentTime,
                         audioContext, now, hostFault, intoRecording>>
          /\ \E o \in (IF appState = "recording" THEN SinkStop(mediaRecorder)
                       ELSE {[recorders |-> recorders, sinkEvents |-> sinkEvents,
                              threw |-> FALSE]}) :
               /\ recorders' = o.recorders
               /\ sinkEvents' = o.sinkEvents
               /\ IF o.threw
                  THEN \* mediaRecorder.stop() raised: the rest is not run
                       /\ lastEvent' = Event("stop", "threw", 0)
                       /\ UNCHANGED <<appState, audioPaused, attempts, animationFrameId,
                                      orphanFrames, lastFrameTime, targetFrameInterval,
                                      animationFrame, settings, frameVars, outOfRecording>>
                  ELSE /\ appState' = "idle"
                       /\ outOfRecording' = outOfRecording +
                              (IF appState = "recording" THEN 1 ELSE 0)
                       /\ AudioPauseCall
                       /\ VisualizerStop
                       /\ lastEvent' = Event("stop", "ok", 0)

\* ------------------------------------------------------- host callbacks
\* The task a stopped recorder queued: ondataavailable, then onstop, which
\* builds the blob, clears recordedChunks and calls createDownloadLink.
\* onstop after the blob is built: recordedChunks = [].
OnStopKeepsChunks(chunks) == chunks

OnStopChunks(chunks) == <<>>

SinkFinalize ==
    /\ sinkEvents # <<>>
    /\ \E size \in {0, 1} :
         LET ev     == Head(sinkEvents)
             chunks == IF size > 0 THEN Append(recordedChunks, ev.seg)
                                   ELSE recordedChunks
         IN  /\ downloadContainer' = Append(downloadContainer,
                    [clip |-> DownloadTag, seg |-> ev.seg, chunks |-> chunks])
             /\ recordedChunks' = OnStopChunks(chunks)
    /\ sinkEvents' = Tail(sinkEvents)
    /\ lastEvent' = Event("finalize", "ok", 0)
    /\ UNCHANGED <<appState, clipCounter, mediaRecorder, startBtnDisabled,
                   hasMediaRecorder, recorders, audioSrc, audioPaused, currentTime,
                   audioContext, attempts, loopVars, frameVars, log, sequential, hostFault,
                   intoRecording, outOfRecording, fed, decisions, sceneVars>>

\* handleAudioUpload and checkFilesReady.  Assigning src to an element that
\* already has media restarts it: paused, position 0, pending plays rejected.
HandleAudioUpload ==
    /\ audioSrc' = TRUE
    /\ startBtnDisabled' = FALSE
    /\ IF audioSrc
       THEN /\ audioPaused' = TRUE
            /\ currentTime' = 0
            /\ attempts' = AbortedPlays
       ELSE UNCHANGED <<audioPaused, currentTime, attempts>>
    /\ lastEvent' = Event("audioUpload", "ok", 0)
    /\ UNCHANGED <<appState, clipCounter, mediaRecorder, recordedChunks,
                   downloadContainer, hasMediaRecorder, recorders, sinkEvents,
                   audioContext, loopVars, frameVars, log, sequential, hostFault,
                   intoRecording, outOfRecording, fed, decisions, sceneVars>>

\* the audio element plays on
AudioAdvance ==
    /\ audioSrc /\ ~audioPaused /\ currentTime < MaxPos
    /\ currentTime' = currentTime + 1
    /\ lastEvent' = Event("timeupdate", "ok", 0)
    /\ UNCHANGED <<appVars, hasMediaRecorder, recorders, sinkEvents, audioSrc,
                   audioPaused, audioContext, attempts, loopVars, frameVars, log, sequential,
                   hostFault, intoRecording, outOfRecording, fed, decisions, sceneVars>>

\* the host runs a pending repaint callback: (t) => this.loop(t)
RepaintTick ==
    \E d \in TickDeltas, origin \in {"tracked", "orphan"} :
      /\ ~pendingLoop
      /\ now + d <= MaxTime
      /\ IF origin = "tracked" THEN animationFrameId = 1 ELSE orphanFrames > 0
      /\ now' = now + d
      /\ Loop(now + d, origin)
      /\ lastEvent' = Event("tick", IF FrameSkipped(now + d) THEN "skip" ELSE "frame", 0)
      /\ UNCHANGED <<appVars, hostVars, log, sequential, hostFault, intoRecording,
                     outOfRecording, fed, decisions, sceneVars>>

Next ==
    \/ HandleStart
    \/ StartAfterResume
    \/ StartAfterPlay
    \/ HandlePause
    \/ HandleResume
    \/ HandleStop
    \/ SinkFinalize
    \/ HandleAudioUpload
    \/ AudioAdvance
    \/ RepaintTick

Spec == Init /\ [][Next]_vars

\* ------------------------------------------------- the scheduler alone
\* A visualizer driven by hand: loop(t) is called with a chosen timestamp,
\* the first time from outside, later as the repaint callback it requested.
FeedTick ==
    \E t \in FeedTimes :
      /\ Len(fed) < MaxFeed
      /\ Loop(t, IF animationFrameId = 1 THEN "tracked" ELSE "call")
      /\ fed' = Append(fed, t)
      /\ decisions' = Append(decisions, ~FrameSkipped(t))
      /\ lastEvent' = Event("tick", IF FrameSkipped(t) THEN "skip" ELSE "frame", 0)
      /\ UNCHANGED <<appVars, hostVars, now, log, sequential, hostFault,
                     intoRecording, outOfRecording, sceneVars>>

SchedNext == FeedTick

SchedSpec == Init /\ [][SchedNext]_vars

\* ------------------------------------------------ the visualizer alone
\* An AudioVisualizer driven through its methods, with the host running its
\* repaint callbacks.  Calls made before the microtask start() left has run
\* are calls of the same task; the host runs no callback in between.
captureVars == <<appVars, hasMediaRecorder, recorders, sinkEvents, audioSrc,
                 audioPaused, currentTime, attempts, log, sequential, hostFault,
                 intoRecording, outOfRecording, fed, decisions, overlayVars>>

\* updateSettings(newSettings): newSettings is a record of the fields given.
\* The frame rates are the decimal integers of the select, which parseInt
\* and the division read alike.
UpdateSettingsKeepsInterval(newSettings) ==
    /\ settings' = [f \in DOMAIN settings |->
                       IF f \in DOMAIN newSettings THEN newSettings[f]
                                                   ELSE settings[f]]
    /\ targetFrameInterval' = targetFrameInterval
    /\ IF "height" \in DOMAIN newSettings /\ newSettings.height # 0
       THEN canvas' = newSettings.height /\ backgroundNeedsUpdate' = TRUE
       ELSE UNCHANGED <<canvas, backgroundNeedsUpdate>>

UpdateSettings(newSettings) ==
    /\ settings' = [f \in DOMAIN settings |->
                       IF f \in DOMAIN newSettings THEN newSettings[f]
                                                   ELSE settings[f]]
    /\ targetFrameInterval' =
         IF "frameRate" \in DOMAIN newSettings /\ newSettings.frameRate # 0
         THEN TargetInterval(newSettings.frameRate)
         ELSE targetFrameInterval
    /\ IF "height" \in DOMAIN newSettings /\ newSettings.height # 0
       THEN canvas' = newSettings.height /\ backgroundNeedsUpdate' = TRUE
       ELSE UNCHANGED <<canvas, backgroundNeedsUpdate>>

\* start(): without an audio context, setupAudio() and then loop() in a
\* microtask; with one, resume() and loop() at once.  loop() gets no argument.
VisStart ==
    /\ animationFrame < MaxPhase
    /\ \/ /\ audioContext = "null"
          /\ \/ /\ \E o \in SetupAudioThrows :
                     audioContext' = o.audioContext /\ dataArray' = o.dataArray
                /\ lastEvent' = Event("visualizer.start", "failed", 0)
                /\ UNCHANGED pendingLoop
             \/ /\ audioContext' \in {"suspended", "running"}
                /\ dataArray' = "silence"
                /\ pendingLoop' = TRUE
                /\ lastEvent' = Event("visualizer.start", "pending", 0)
          /\ UNCHANGED <<loopVars, cachedBackground, backgroundNeedsUpdate, lastFrame,
                         renderVars>>
       \/ /\ audioContext # "null"
          /\ audioContext' \in {audioContext, "running"}
          /\ Loop(Undefined, "call")
          /\ lastEvent' = Event("visualizer.start",
                                IF FrameSkipped(Undefined) THEN "skip" ELSE "frame", 0)
          /\ UNCHANGED <<now, pendingLoop>>
    /\ UNCHANGED <<captureVars, bgVars>>

\* the callback of "this.setupAudio().then(() => this.loop())"
VisStartLoop ==
    /\ pendingLoop
    /\ pendingLoop' = FALSE
    /\ Loop(Undefined, "call")
    /\ lastEvent' = Event("visualizer.loop",
                          IF FrameSkipped(Undefined) THEN "skip" ELSE "frame", 0)
    /\ UNCHANGED <<captureVars, bgVars, audioContext, now>>

VisPause ==
    /\ VisualizerPause
    /\ lastEvent' = Event("visualizer.pause", "ok", animationFrameId)
    /\ UNCHANGED <<captureVars, bgVars, audioContext, now, pendingLoop>>

VisStop ==
    /\ VisualizerStop
    /\ lastEvent' = Event("visualizer.stop", "ok", animationFrameId)
    /\ UNCHANGED <<captureVars, bgVars, audioContext, now, pendingLoop>>

\* the frameRate and animationSpeed listeners of js/app.js
SchedulingPatches ==
    {[frameRate |-> fr] : fr \in FrameRates} \cup
    {[animationSpeed |-> sp] : sp \in Speeds}

VisUpdateSettings ==
    \E newSettings \in SchedulingPatches :
      /\ UpdateSettings(newSettings)
      /\ lastEvent' = Event("updateSettings",
                            IF "frameRate" \in DOMAIN newSettings THEN "frameRate"
                                                                  ELSE "other", 0)
      /\ UNCHANGED <<captureVars, audioContext, animationFrameId, orphanFrames,
                     lastFrameTime, animationFrame, now, pendingLoop, dataArray,
                     cachedBackground, lastFrame, backgroundImage, backgroundVideo,
                     loadVars, renderVars>>

\* draw() called once from outside the loop
VisDraw ==
    /\ Draw(dataArray)
    /\ lastEvent' = Event("draw", "ok", 0)
    /\ UNCHANGED <<captureVars, bgVars, audioContext, loopVars, pendingLoop, dataArray>>

\* drawInitialState(): the background as it is now and the onDraw hook,
\* straight onto the canvas
DrawInitialState ==
    /\ DrawInitialStateCall(ctx, Media(backgroundVideo, backgroundImage),
                            animationFrameId # 0, overlayImages, overlaySettings,
                            textOverlays)
    /\ lastEvent' = Event("drawInitialState", "ok", 0)
    /\ UNCHANGED <<captureVars, bgVars, audioContext, loopVars, pendingLoop, dataArray,
                   cachedBackground, backgroundNeedsUpdate, lastFrame>>

VisNext ==
    \/ VisStart
    \/ VisStartLoop
    \/ VisPause
    \/ VisStop
    \/ VisUpdateSettings
    \/ VisDraw
    \/ DrawInitialState
    \/ RepaintTick

\* the page of a host with MediaRecorder; nothing here reads the two flags
VisInit == Init /\ hasMediaRecorder /\ ~startBtnDisabled

VisSpec == VisInit /\ [][VisNext]_vars

\* --------------------------------------------------- the draw methods
\* A visualizer whose loop is fed timestamps by hand, with and without an
\* analyser, under every style, theme and speed.
PaintPatches ==
    {[barStyle |-> st] : st \in BarStyles} \cup
    {[animationSpeed |-> sp] : sp \in Speeds} \cup
    {[colorTheme |-> th] : th \in ColorThemes}

PaintUpdateSettings ==
    \E newSettings \in PaintPatches :
      /\ UpdateSettings(newSettings)
      /\ lastEvent' = Event("updateSettings", "other", 0)
      /\ UNCHANGED <<captureVars, audioContext, animationFrameId, orphanFrames,
                     lastFrameTime, animationFrame, now, pendingLoop, dataArray,
                     cachedBackground, lastFrame, backgroundImage, backgroundVideo,
                     loadVars, renderVars>>

\* setupAudio() called on its own
SetupAudio ==
    /\ audioContext = "null"
    /\ \/ /\ \E o \in SetupAudioThrows :
               audioContext' = o.audioContext /\ dataArray' = o.dataArray
          /\ lastEvent' = Event("setupAudio", "failed", 0)
       \/ /\ audioContext' \in {"suspended", "running"}
          /\ dataArray' = "silence"
          /\ lastEvent' = Event("setupAudio", "ok", 0)
    /\ UNCHANGED <<captureVars, bgVars, loopVars, pendingLoop, cachedBackground,
                   backgroundNeedsUpdate, lastFrame, renderVars>>

\* loop(t) with a chosen timestamp, as in FeedTick, without keeping the list
PaintTick ==
    \E t \in FeedTimes :
      /\ animationFrame < MaxPhase
      /\ Loop(t, IF animationFrameId = 1 THEN "tracked" ELSE "call")
      /\ lastEvent' = Event("tick", IF FrameSkipped(t) THEN "skip" ELSE "frame", 0)
      /\ UNCHANGED <<captureVars, bgVars, audioContext, now, pendingLoop>>

PaintNext ==
    \/ PaintUpdateSettings
    \/ SetupAudio
    \/ PaintTick
    \/ VisDraw

PaintSpec == VisInit /\ [][PaintNext]_vars

\* ------------------------------------------------------ the background
\* A visualizer whose background is assigned and whose canvas is resized
\* between single draw() calls.
\* setBackground(image), with the drawInitialState() of a visualizer that
\* has no repaint callback stored
SetBackgroundKeepsCache(image) ==
    /\ backgroundImage' = image
    /\ backgroundVideo' = "null"
    /\ backgroundNeedsUpdate' = backgroundNeedsUpdate
    /\ IF animationFrameId = 0
       THEN DrawInitialStateCall(ctx, image, FALSE, overlayImages, overlaySettings,
                                 textOverlays)
       ELSE UNCHANGED renderVars

SetBackground(image) ==
    /\ backgroundImage' = image
    /\ backgroundVideo' = "null"
    /\ backgroundNeedsUpdate' = TRUE
    /\ IF animationFrameId = 0
       THEN DrawInitialStateCall(ctx, image, FALSE, overlayImages, overlaySettings,
                                 textOverlays)
       ELSE UNCHANGED renderVars

BgSetBackground ==
    \E image \in Images :
      /\ SetBackground(image)
      /\ requested' = image
      /\ lastEvent' = Event("setBackground", image, 0)
      /\ UNCHANGED <<captureVars, audioContext, loopVars, pendingLoop, dataArray,
                     cachedBackground, lastFrame, canvas, videoLoads, imageLoads,
                     playing>>

\* handleImageUpload with an image file: the Image element starts loading
BgImageUpload ==
    \E image \in Images \ imageLoads :
      /\ imageLoads' = imageLoads \cup {image}
      /\ requested' = image
      /\ lastEvent' = Event("imageUpload", image, 0)
      /\ UNCHANGED <<captureVars, audioContext, loopVars, pendingLoop, frameVars,
                     backgroundImage, backgroundVideo, canvas, videoLoads, playing>>

\* img.onload of handleImageUpload: setBackground(img), checkFilesReady()
ImageLoaded ==
    \E image \in imageLoads :
      /\ imageLoads' = imageLoads \ {image}
      /\ SetBackground(image)
      /\ startBtnDisabled' = (IF audioSrc THEN FALSE ELSE startBtnDisabled)
      /\ lastEvent' = Event("imageLoaded", image, 0)
      /\ UNCHANGED <<appState, clipCounter, mediaRecorder, recordedChunks,
                     downloadContainer, hasMediaRecorder, recorders, sinkEvents,
                     audioSrc, audioPaused, currentTime, attempts, log, sequential,
                     hostFault, intoRecording, outOfRecording, fed, decisions,
                     overlayVars, audioContext, loopVars, pendingLoop, dataArray,
                     cachedBackground, lastFrame, canvas, videoLoads, playing,
                     requested>>

\* setBackgroundVideo(url), also as handleImageUpload calls it for a video
\* file: the current video, if any, is paused and dropped at once; the new
\* element becomes the background when its metadata has loaded
BgSetBackgroundVideo ==
    \E video \in Videos \ (videoLoads \cup playing \cup {backgroundVideo}) :
      /\ playing' = playing \ {backgroundVideo}
      /\ backgroundVideo' = "null"
      /\ videoLoads' = videoLoads \cup {video}
      /\ requested' = video
      /\ lastEvent' = Event("setBackgroundVideo", video, 0)
      /\ UNCHANGED <<captureVars, audioContext, loopVars, pendingLoop, frameVars,
                     backgroundImage, canvas, imageLoads>>

\* video.onloadedmetadata; video.play() may be refused by the host
VideoLoaded ==
    \E video \in videoLoads, allowed \in BOOLEAN :
      /\ videoLoads' = videoLoads \ {video}
      /\ playing' = (IF allowed THEN playing \cup {video} ELSE playing)
      /\ backgroundVideo' = video
      /\ backgroundImage' = "null"
      /\ backgroundNeedsUpdate' = TRUE
      /\ IF animationFrameId = 0
         THEN DrawInitialStateCall(ctx, video, FALSE, overlayImages, overlaySettings,
                                   textOverlays)
         ELSE UNCHANGED renderVars
      /\ lastEvent' = Event("loadedmetadata", video, 0)
      /\ UNCHANGED <<captureVars, audioContext, loopVars, pendingLoop, dataArray,
                     cachedBackground, lastFrame, canvas, imageLoads, requested>>

\* the videoQuality listeners of js/app.js: updateSettings({width, height}),
\* which resets the context as every assignment to canvas.width or
\* canvas.height does, and then drawInitialState()
BgResize ==
    \E height \in CanvasSizes :
      /\ UpdateSettings([height |-> height])
      /\ DrawInitialStateCall(DefaultCtx, Media(backgroundVideo, backgroundImage),
                              animationFrameId # 0, overlayImages, overlaySettings,
                              textOverlays)
      /\ lastEvent' = Event("updateSettings", "size", canvas)
      /\ UNCHANGED <<captureVars, audioContext, animationFrameId, orphanFrames,
                     lastFrameTime, animationFrame, now, pendingLoop, dataArray,
                     cachedBackground, lastFrame, backgroundImage, backgroundVideo,
                     loadVars>>

BgNext ==
    \/ BgSetBackground
    \/ BgImageUpload
    \/ ImageLoaded
    \/ BgSetBackgroundVideo
    \/ VideoLoaded
    \/ BgResize
    \/ VisDraw

BgSpec == VisInit /\ [][BgNext]_vars

\* ------------------------------------------------------- the bar layout
\* A visualizer whose bar count, mirror mode, style and canvas size are set
\* between frames, with and without an analyser.
LayoutPatches ==
    {[barCount |-> n] : n \in BarCounts} \cup
    {[mirrorMode |-> m] : m \in MirrorModes} \cup
    {[barStyle |-> st] : st \in LayoutStyles}

\* the barCount, mirrorMode and barStyle listeners of js/app.js; the first
\* two end with drawInitialState()
LayoutUpdateSettings ==
    \E newSettings \in LayoutPatches :
      /\ UpdateSettings(newSettings)
      /\ IF "barStyle" \in DOMAIN newSettings
         THEN UNCHANGED renderVars
         ELSE DrawInitialStateCall(ctx, Media(backgroundVideo, backgroundImage),
                                   animationFrameId # 0, overlayImages,
                                   overlaySettings, textOverlays)
      /\ lastEvent' = Event("updateSettings", "other", 0)
      /\ UNCHANGED <<captureVars, audioContext, animationFrameId, orphanFrames,
                     lastFrameTime, animationFrame, now, pendingLoop, dataArray,
                     cachedBackground, lastFrame, backgroundImage, backgroundVideo,
                     loadVars>>

LayoutNext ==
    \/ LayoutUpdateSettings
    \/ SetupAudio
    \/ BgResize
    \/ PaintTick

LayoutSpec == VisInit /\ [][LayoutNext]_vars

\* --------------------------------------------------------- the overlays
\* The overlay slots of js/app.js under text input, overlay uploads and
\* pointer events on the canvas.
nonOverlayVars == <<appVars, hostVars, loopVars, dataArray, cachedBackground,
                    backgroundNeedsUpdate, lastFrame, bgVars, pendingLoop,
                    log, sequential, hostFault, intoRecording, outOfRecording,
                    fed, decisions>>

\* the hit box of text slot i
TextHit(i, x, y) ==
    LET t == textOverlays[i]
    IN  /\ t.content # ""
        /\ x >= t.x /\ x <= t.x + MeasureText(t)
        /\ y >= t.y - t.size /\ y <= t.y + 10

\* the hit box of image slot i; w = img.width * size / 100 is compared
\* without rounding
ImageHit(i, x, y) ==
    LET img == overlayImages[i]
        s   == overlaySettings[i]
    IN  /\ img # NoImage
        /\ x >= s.x /\ (x - s.x) * 100 <= img.width * s.size
        /\ y >= s.y /\ (y - s.y) * 100 <= img.height * s.size

\* for (i = length - 1; i >= 0; i--): the first slot that is hit
RECURSIVE ScanTexts(_, _, _)
ScanTexts(i, x, y) ==
    IF i < 0 THEN NoTarget
    ELSE IF TextHit(i, x, y) THEN i
    ELSE ScanTexts(i - 1, x, y)

RECURSIVE ScanImagesUpward(_, _, _)
ScanImagesUpward(i, x, y) ==
    IF i < 0 THEN NoTarget
    ELSE IF ImageHit(4 - i, x, y) THEN 4 - i
    ELSE ScanImagesUpward(i - 1, x, y)

RECURSIVE ScanImages(_, _, _)
ScanImages(i, x, y) ==
    IF i < 0 THEN NoTarget
    ELSE IF ImageHit(i, x, y) THEN i
    ELSE ScanImages(i - 1, x, y)

\* a pointer position as one number, for the event record, and back
PointerCode(x, y) == x * 1000 + y

PointerX(code) == code \div 1000

PointerY(code) == code % 1000

\* checkDragStart(x, y)
CheckDragStart(x, y) ==
    LET ti == ScanTexts(1, x, y)
        ii == ScanImages(4, x, y)
    IN  IF ti # NoTarget
        THEN /\ activeTextOverlay' = ti
             /\ textOverlays' = [textOverlays EXCEPT
                    ![ti].isDragging = TRUE,
                    ![ti].dragOffset = [x |-> x - textOverlays[ti].x,
                                        y |-> y - textOverlays[ti].y]]
             /\ lastEvent' = Event("dragStart", "text", PointerCode(x, y))
             /\ UNCHANGED <<overlayImages, overlaySettings, activeOverlay>>
        ELSE IF ii # NoTarget
        THEN /\ activeOverlay' = ii
             /\ overlaySettings' = [overlaySettings EXCEPT
                    ![ii].isDragging = TRUE,
                    ![ii].dragOffset = [x |-> x - overlaySettings[ii].x,
                                        y |-> y - overlaySettings[ii].y]]
             /\ lastEvent' = Event("dragStart", "image", PointerCode(x, y))
             /\ UNCHANGED <<overlayImages, textOverlays, activeTextOverlay>>
        ELSE /\ lastEvent' = Event("dragStart", "none", PointerCode(x, y))
             /\ UNCHANGED <<overlayImages, overlaySettings, activeOverlay,
                            textOverlays, activeTextOverlay>>

\* handleCanvasMouseDown / handleCanvasTouchStart
PointerDown ==
    \E p \in Points :
      /\ drags < MaxDrags
      /\ drags' = drags + 1
      /\ CheckDragStart(p.x, p.y)
      /\ UNCHANGED <<nonOverlayVars, renderVars>>

\* handleDragMove(x, y)
HandleDragMove(x, y) ==
    /\ IF activeTextOverlay # NoTarget
       THEN /\ textOverlays' =
                 IF textOverlays[activeTextOverlay].isDragging
                 THEN [textOverlays EXCEPT
                         ![activeTextOverlay].x =
                             x - textOverlays[activeTextOverlay].dragOffset.x,
                         ![activeTextOverlay].y =
                             y - textOverlays[activeTextOverlay].dragOffset.y]
                 ELSE textOverlays
            /\ UNCHANGED overlaySettings
       ELSE IF activeOverlay # NoTarget
       THEN /\ overlaySettings' =
                 IF overlaySettings[activeOverlay].isDragging
                 THEN [overlaySettings EXCEPT
                         ![activeOverlay].x =
                             x - overlaySettings[activeOverlay].dragOffset.x,
                         ![activeOverlay].y =
                             y - overlaySettings[activeOverlay].dragOffset.y]
                 ELSE overlaySettings
            /\ UNCHANGED textOverlays
       ELSE UNCHANGED <<textOverlays, overlaySettings>>
    /\ IF \/ /\ activeTextOverlay # NoTarget
             /\ textOverlays[activeTextOverlay].isDragging
          \/ /\ activeTextOverlay = NoTarget /\ activeOverlay # NoTarget
             /\ overlaySettings[activeOverlay].isDragging
       THEN DrawInitialStateCall(ctx, Media(backgroundVideo, backgroundImage),
                                 animationFrameId # 0, overlayImages,
                                 overlaySettings', textOverlays')
       ELSE UNCHANGED renderVars
    /\ UNCHANGED <<overlayImages, activeOverlay, activeTextOverlay>>

\* handleCanvasMouseMove / handleCanvasTouchMove
PointerMove ==
    \E p \in MovePoints :
      /\ HandleDragMove(p.x, p.y)
      /\ lastEvent' = Event("dragMove", "ok", PointerCode(p.x, p.y))
      /\ UNCHANGED <<nonOverlayVars, drags>>

\* stopDrag(), from mouseup, mouseleave and touchend
StopDrag ==
    /\ textOverlays' = IF activeTextOverlay # NoTarget
                       THEN [textOverlays EXCEPT ![activeTextOverlay].isDragging = FALSE]
                       ELSE textOverlays
    /\ activeTextOverlay' = NoTarget
    /\ overlaySettings' = IF activeOverlay # NoTarget
                          THEN [overlaySettings EXCEPT ![activeOverlay].isDragging = FALSE]
                          ELSE overlaySettings
    /\ activeOverlay' = NoTarget
    /\ lastEvent' = Event("dragStop", "ok", 0)
    /\ UNCHANGED <<nonOverlayVars, renderVars, overlayImages, drags>>

\* the input listener of a text field
TextInput ==
    \E i \in 0..1, content \in Contents :
      /\ textOverlays' = [textOverlays EXCEPT ![i].content = content]
      /\ DrawInitialStateCall(ctx, Media(backgroundVideo, backgroundImage),
                              animationFrameId # 0, overlayImages, overlaySettings,
                              textOverlays')
      /\ lastEvent' = Event("textInput", "ok", 0)
      /\ UNCHANGED <<nonOverlayVars, overlayImages, overlaySettings, activeOverlay,
                     activeTextOverlay, drags>>

\* img.onload of handleOverlayUpload(e, index)
OverlayLoaded ==
    \E index \in UploadSlots, img \in Pictures :
      /\ overlaySettings' = [overlaySettings EXCEPT ![index] =
             [x |-> CanvasWidth \div 2 - 100, y |-> canvas \div 2 - 100, size |-> 50,
              opacity |-> 100, isDragging |-> FALSE, dragOffset |-> [x |-> 0, y |-> 0]]]
      /\ overlayImages' = [overlayImages EXCEPT ![index] = img]
      /\ DrawInitialStateCall(ctx, Media(backgroundVideo, backgroundImage),
                              animationFrameId # 0, overlayImages', overlaySettings',
                              textOverlays)
      /\ lastEvent' = Event("overlayLoaded", "ok", index)
      /\ UNCHANGED <<nonOverlayVars, textOverlays, activeOverlay, activeTextOverlay,
                     drags>>

\* the input listeners of an overlay's size and opacity sliders
OverlaySizeInput ==
    \E index \in SizedSlots, size \in Sizes :
      /\ overlaySettings' = [overlaySettings EXCEPT ![index].size = size]
      /\ DrawInitialStateCall(ctx, Media(backgroundVideo, backgroundImage),
                              animationFrameId # 0, overlayImages, overlaySettings',
                              textOverlays)
      /\ lastEvent' = Event("overlaySize", "ok", index)
      /\ UNCHANGED <<nonOverlayVars, overlayImages, textOverlays, activeOverlay,
                     activeTextOverlay, drags>>

OverlayOpacityInput ==
    \E index \in SizedSlots, opacity \in Opacities :
      /\ overlaySettings' = [overlaySettings EXCEPT ![index].opacity = opacity]
      /\ DrawInitialStateCall(ctx, Media(backgroundVideo, backgroundImage),
                              animationFrameId # 0, overlayImages, overlaySettings',
                              textOverlays)
      /\ lastEvent' = Event("overlayOpacity", "ok", index)
      /\ UNCHANGED <<nonOverlayVars, overlayImages, textOverlays, activeOverlay,
                     activeTextOverlay, drags>>

\* removeOverlay(index): the slot's image goes, its settings stay
RemoveOverlayResetsSlot(index) ==
    /\ overlayImages' = [overlayImages EXCEPT ![index] = NoImage]
    /\ overlaySettings' = [overlaySettings EXCEPT
           ![index].x = 100 + index * 50, ![index].y = 100 + index * 50]

RemoveOverlay(index) ==
    /\ overlayImages' = [overlayImages EXCEPT ![index] = NoImage]
    /\ UNCHANGED overlaySettings

\* the click listener of an overlay's remove button
OverlayRemove ==
    \E index \in SizedSlots :
      /\ RemoveOverlay(index)
      /\ DrawInitialStateCall(ctx, Media(backgroundVideo, backgroundImage),
                              animationFrameId # 0, overlayImages', overlaySettings',
                              textOverlays)
      /\ lastEvent' = Event("overlayRemoved", "ok", index)
      /\ UNCHANGED <<nonOverlayVars, textOverlays, activeOverlay, activeTextOverlay,
                     drags>>

OverlayNext ==
    \/ PointerDown
    \/ PointerMove
    \/ StopDrag
    \/ TextInput
    \/ OverlayLoaded
    \/ OverlaySizeInput
    \/ OverlayOpacityInput
    \/ OverlayRemove

OverlaySpec == VisInit /\ [][OverlayNext]_vars

\* ------------------------------------------------ the canvas context
\* The page with text and image overlays, a glow setting and a resizable
\* canvas, painted by drawInitialState() and by draw().
\* the glowIntensity listener of js/app.js
GlowInput ==
    \E glow \in GlowLevels :
      /\ UpdateSettings([glowIntensity |-> glow])
      /\ DrawInitialStateCall(ctx, Media(backgroundVideo, backgroundImage),
                              animationFrameId # 0, overlayImages, overlaySettings,
                              textOverlays)
      /\ lastEvent' = Event("updateSettings", "glow", 0)
      /\ UNCHANGED <<captureVars, audioContext, animationFrameId, orphanFrames,
                     lastFrameTime, animationFrame, now, pendingLoop, dataArray,
                     cachedBackground, lastFrame, backgroundImage, backgroundVideo,
                     loadVars>>

\* the change listener of a text's shadow checkbox
TextShadowInput ==
    \E i \in 0..1, checked \in BOOLEAN :
      /\ textOverlays' = [textOverlays EXCEPT ![i].shadow = checked]
      /\ DrawInitialStateCall(ctx, Media(backgroundVideo, backgroundImage),
                              animationFrameId # 0, overlayImages, overlaySettings,
                              textOverlays')
      /\ lastEvent' = Event("textShadow", "ok", 0)
      /\ UNCHANGED <<nonOverlayVars, overlayImages, overlaySettings, activeOverlay,
                     activeTextOverlay, drags>>

RenderNext ==
    \/ GlowInput
    \/ TextInput
    \/ TextShadowInput
    \/ OverlayLoaded
    \/ BgResize
    \/ VisDraw

RenderSpec == VisInit /\ [][RenderNext]_vars

\* ================================================================ claims
ClipTags == [i \in 1..Len(downloadContainer) |-> downloadContainer[i].clip]

\* every request was issued with nothing pending, nothing failed, and
\* nothing is pending now: the run of a caller that awaits each request and
\* the sink's finalize callback before issuing the next
AwaitedRun == sequential /\ ~hostFault /\ Quiescent

OutOfState(request) ==
    \/ request = "start"  /\ appState \in {"recording", "paused"}
    \/ request = "pause"  /\ appState \in {"idle", "paused"}
    \/ request = "resume" /\ appState \in {"idle", "recording"}
    \/ request = "stop"   /\ appState = "idle"

\* C1: in an awaited run, the requests start, pause, resume, stop leave
\* exactly two downloads, tagged 1 and 2 in that order; start, stop leave
\* exactly one, tagged 1; both runs end in state idle.
C1_ScriptedSequences ==
    AwaitedRun =>
        /\ log = <<"start", "pause", "resume", "stop">>
               => ClipTags = <<1, 2>> /\ appState = "idle"
        /\ log = <<"start", "stop">>
               => ClipTags = <<1>> /\ appState = "idle"

C1_Witness ==
    /\ AwaitedRun
    /\ log = <<"start", "pause", "resume", "stop">>
    /\ ClipTags = <<1, 2>>
    /\ appState = "idle"

C3_ArtifactPerExit ==
    Quiescent => Len(downloadContainer) = outOfRecording

\* C4: every download is tagged with the clip counter its segment started
\* with.
C4_TagIsSegmentCounter ==
    \A i \in 1..Len(downloadContainer) :
        downloadContainer[i].clip = downloadContainer[i].seg

\* C5: a request issued in a state where it is not enabled changes neither
\* the capture state, the clip counter, the sink, the render loop, the audio
\* nor the downloads, and raises nothing.
C5_OutOfStateIsNoOp ==
    [][(log' # log /\ OutOfState(Last(log'))) =>
           /\ UNCHANGED <<appState, clipCounter, mediaRecorder, recordedChunks,
                          downloadContainer, recorders, sinkEvents, audioPaused,
                          currentTime, audioContext, attempts, loopVars, frameVars>>
           /\ lastEvent'.res = "ignored"]_vars

C5_Witness ==
    /\ lastEvent = Event("pause", "ignored", 0)
    /\ appState = "idle"
    /\ downloadContainer = <<>>

\* C6: when a handleStart has just ended in its catch block, the state is
\* idle, the clip counter is what it was before the attempt, the audio is
\* paused, no repaint callback is pending and no recorder is recording.
C6_FailedStartLeavesNothing ==
    (lastEvent.op = "start" /\ lastEvent.res = "failed") =>
        /\ appState = "idle"
        /\ clipCounter = lastEvent.before
        /\ audioPaused
        /\ animationFrameId = 0 /\ orphanFrames = 0
        /\ ~SinkRecording

\* C7: while a handleStart is suspended at an await the state is idle, and
\* the state is recording only when the recorder has been created and
\* started.
C7_AdvanceOnlyOnSuccess ==
    /\ attempts # {} => appState = "idle"
    /\ appState = "recording" =>
           mediaRecorder # 0 /\ recorders[mediaRecorder].state = "recording"

\* C8: without MediaRecorder no handleStart ever changes the state, counts a
\* clip, starts the audio or fails.
C8_NoSinkNoAttempt ==
    ~hasMediaRecorder =>
        /\ appState = "idle"
        /\ clipCounter = 0
        /\ audioPaused
        /\ lastEvent.op # "start"

\* C9: when handleStop has just run from recording or paused (here: in an
\* awaited run, which is enough to refute it), no repaint callback is tracked
\* and the audio position is back at 0.
C9_StopResetsPlayback ==
    (AwaitedRun /\ lastEvent.op = "stop" /\ lastEvent.res = "ok") =>
        animationFrameId = 0 /\ currentTime = 0

\* C10 as stated: a fresh scheduler at 30 frames per second fed 0, 10, 20,
\* 40 decides true, false, false, true.
C10_AsStated ==
    fed = <<0, 10, 20, 40>> => decisions = <<TRUE, FALSE, FALSE, TRUE>>

\* C10 amended: a fresh scheduler at 30 frames per second fed 0, 10, 20, 40
\* decides false, false, false, true: lastFrameTime starts at 0, so the tick
\* at 0 is 0 ms after it and is skipped.
C10_FreshSchedulerDecisions ==
    fed = <<0, 10, 20, 40>> => decisions = <<FALSE, FALSE, FALSE, TRUE>>

C10_Witness ==
    /\ fed = <<0, 10, 20, 40>>
    /\ decisions = <<FALSE, FALSE, FALSE, TRUE>>
    /\ lastFrameTime = 40

\* C11: for every repaint tick with timestamp t, a frame is computed if and
\* only if t - lastFrameTime >= targetFrameInterval, and lastFrameTime
\* becomes t exactly when a frame is computed and is unchanged otherwise (so
\* two consecutively computed frames are at least the interval apart).
\* Only the repaint callback advances the clock, so now' # now marks a tick.
C11_GateIsExact ==
    [][now' # now =>
         LET due == /\ lastFrameTime # Undefined
                    /\ (now' - lastFrameTime) * targetFrameInterval.den
                          >= targetFrameInterval.num
             computed == lastEvent'.res = "frame"
         IN  /\ computed <=> due
             /\ lastFrameTime' = (IF computed THEN now' ELSE lastFrameTime)]_vars

\* C12: updateSettings with a frame rate sets targetFrameInterval to
\* 1000 / frameRate and leaves lastFrameTime alone; updateSettings without
\* one leaves both alone; so targetFrameInterval = 1000 / settings.frameRate
\* in every reachable state.
C12_FrameRateOnlyRetargets ==
    /\ [](targetFrameInterval = TargetInterval(settings.frameRate))
    /\ [][lastEvent'.op = "updateSettings" =>
            /\ lastFrameTime' = lastFrameTime
            /\ lastEvent'.res = "frameRate" =>
                  targetFrameInterval' = TargetInterval(settings'.frameRate)
            /\ lastEvent'.res = "other" =>
                  targetFrameInterval' = targetFrameInterval]_vars

\* the frame rate was raised to 60 after a frame had been computed at 40 ms
C12_Witness ==
    /\ lastEvent = Event("updateSettings", "frameRate", 0)
    /\ settings.frameRate = 60
    /\ targetFrameInterval = TargetInterval(60)
    /\ lastFrameTime = 40

\* C13: every invocation of loop leaves a repaint callback requested,
\* whether the frame was computed or skipped, and the callback
\* animationFrameId names stays pending until pause() or stop() cancels it.
C13_GateNeverEndsLoop ==
    /\ [][(lastEvent'.op \in {"tick", "visualizer.loop"}
             \/ (lastEvent'.op = "visualizer.start"
                   /\ lastEvent'.res \in {"frame", "skip"}))
           => animationFrameId' = 1]_vars
    /\ [][(animationFrameId = 1 /\ animationFrameId' = 0)
           => lastEvent'.op \in {"visualizer.pause", "visualizer.stop"}]_vars

\* a tick was skipped by the gate and a callback is pending after it
C13_Witness ==
    /\ lastEvent = Event("tick", "skip", 0)
    /\ animationFrameId = 1
    /\ lastFrameTime # Undefined /\ now - lastFrameTime = 10

\* C14: animationFrame grows by exactly settings.animationSpeed with each
\* computed frame and is left alone by a skipped tick and by a single
\* render outside the loop (draw, drawInitialState, also inside stop()).
C14_PhaseAdvancesPerFrame ==
    [][/\ lastEvent'.res = "frame" =>
            animationFrame' = animationFrame + settings.animationSpeed
       /\ (lastEvent'.res = "skip"
             \/ lastEvent'.op \in {"draw", "drawInitialState", "visualizer.stop"})
           => animationFrame' = animationFrame]_vars

\* a frame computed at speed 2 after one computed at speed 1
C14_Witness ==
    /\ lastEvent.res = "frame"
    /\ settings.animationSpeed = 2
    /\ animationFrame = 3

\* C15: under the rainbow theme the colours a draw() used are determined by
\* the animation phase and speed alone, whatever the spectrum was and with
\* or without an analyser: the hues are (phase * speed + 0 / 120 / 240) mod 360.
C15_RainbowIgnoresSpectrum ==
    (lastFrame.drawn /\ lastFrame.theme = "rainbow") =>
        lastFrame.hues = [i \in 1..3 |->
            (lastFrame.phase * lastFrame.speed + (i - 1) * HueStep) % FullCircle]

\* a rainbow frame at phase 2, speed 2, drawn from a loud spectrum
C15_Witness ==
    /\ lastFrame.drawn /\ lastFrame.theme = "rainbow"
    /\ lastFrame.data = "loud"
    /\ lastFrame.phase = 2 /\ lastFrame.speed = 2
    /\ lastFrame.hues = <<4, 124, 244>>

\* C16: with an image or no background, a draw() that finds the raster
\* present and not invalidated draws that very raster and builds none; a
\* canvas resize or an assigned image invalidates it, and the draw() that
\* finds it invalidated rebuilds it for the current image and size and
\* clears the mark, so the draws after it reuse it.
C16_CacheReusedUntilInvalidated ==
    /\ [][(lastEvent'.op = "draw" /\ backgroundVideo = "null") =>
            IF backgroundNeedsUpdate \/ cachedBackground = NoRaster
            THEN /\ lastFrame'.recomputed
                 /\ cachedBackground' = [image |-> backgroundImage, size |-> canvas]
                 /\ ~backgroundNeedsUpdate'
            ELSE /\ ~lastFrame'.recomputed
                 /\ cachedBackground' = cachedBackground
                 /\ ~backgroundNeedsUpdate']_vars
    /\ [][(lastEvent'.op = "setBackground"
             \/ (lastEvent'.op = "updateSettings" /\ lastEvent'.res = "size"))
           => backgroundNeedsUpdate']_vars

\* the second of two draws after imgB was assigned and the canvas resized
C16_Witness ==
    /\ lastEvent = Event("draw", "ok", 0)
    /\ lastFrame.drawn /\ ~lastFrame.recomputed
    /\ lastFrame.media = "imgB" /\ lastFrame.size = 1080
    /\ cachedBackground = [image |-> "imgB", size |-> 1080]

\* C17: backgroundImage and backgroundVideo are never both set, and every
\* draw() shows the background of the current mode: the video that is set,
\* else a raster of the current image at the current canvas size, never a
\* raster kept from an earlier image.
C17_NoStaleBackground ==
    /\ [](backgroundImage = "null" \/ backgroundVideo = "null")
    /\ [][lastEvent'.op = "draw" =>
            /\ lastFrame'.media = (IF backgroundVideo # "null" THEN backgroundVideo
                                                              ELSE backgroundImage)
            /\ lastFrame'.size = canvas]_vars

\* imgA was drawn and cached, then a video took over and was drawn while
\* the raster of imgA is still held
C17_Witness ==
    /\ lastEvent = Event("draw", "ok", 0)
    /\ backgroundVideo = "vid1" /\ backgroundImage = "null"
    /\ cachedBackground = [image |-> "imgA", size |-> 720]
    /\ lastFrame.media = "vid1"

\* C18: without an analyser (dataArray null) a draw() of a bar style puts
\* down a non-empty set of bars, drawn from the fallback sample.
C18_FallbackBarsDrawn ==
    (lastFrame.drawn /\ lastFrame.data = "null"
       /\ lastFrame.style \in {"gradient", "solid"})
    => lastFrame.marks > 0

\* the slots whose box holds the point (x, y)
TextsAt(x, y) == {i \in 0..1 : TextHit(i, x, y)}

ImagesAt(x, y) == {i \in 0..4 : ImageHit(i, x, y)}

Highest(S) == CHOOSE i \in S : \A j \in S : j <= i

C20_StopIsImmediate ==
    /\ [][(lastEvent'.op = "tick" /\ lastEvent'.res = "frame")
           => animationFrameId = 1]_vars
    /\ [][(lastEvent'.op \in {"pause", "stop"} /\ lastEvent'.res = "ok"
             /\ animationFrameId = 0)
           => UNCHANGED <<animationFrameId, lastFrameTime, animationFrame>>]_vars


\* C21: recordedChunks holds fragments of the current segment only: every
\* finalized artifact is built from exactly the fragments recorded during
\* its own segment, and the list is empty once a finalization has run,
\* whatever start, pause, resume or stop requests arrive between a sink's
\* stop() and its dataavailable/stop callbacks.
C21_ChunksOfOwnSegment ==
    /\ recordedChunks = <<>>
    /\ \A k \in 1..Len(downloadContainer) :
         \A j \in 1..Len(downloadContainer[k].chunks) :
            downloadContainer[k].chunks[j] = downloadContainer[k].seg

\* two artifacts of different segments, each with its own single fragment,
\* finalized although a request arrived while a callback was still pending
C21_Witness ==
    /\ ~sequential
    /\ Len(downloadContainer) >= 2
    /\ downloadContainer[1].chunks = <<downloadContainer[1].seg>>
    /\ downloadContainer[2].chunks = <<downloadContainer[2].seg>>
    /\ downloadContainer[1].seg # downloadContainer[2].seg

\* a repaint callback that will re-enter loop() is pending
LoopRunning == animationFrameId = 1 \/ orphanFrames > 0

\* C29: whenever no handleStart is suspended at an await, the render loop
\* is running if and only if the capture state is recording, and some
\* recorder is recording if and only if the capture state is recording.
C29_LoopAndSinkFollowState ==
    attempts = {} =>
        /\ LoopRunning <=> appState = "recording"
        /\ SinkRecording <=> appState = "recording"

\* C30: at most one repaint-callback chain is pending at any time: loop() is
\* never entered from outside while animationFrameId is set, so no pending
\* callback is left that animationFrameId does not name.
C30_SingleRepaintChain == orphanFrames = 0

\* C22: for the bar styles, with barsToUse = min(barCount, bufferLength)
\* at least 1 and any canvas width W, the layout of a frame satisfies
\* barsToUse * barWidth + (barsToUse - 1) * gap = W.
C22_BarsFillWidth ==
    (/\ lastFrame.drawn
     /\ lastFrame.style \in {"gradient", "solid"}
     /\ lastFrame.marks >= 1) =>
        FracPlus(FracTimes(Whole(lastFrame.marks), lastFrame.layout.barWidth),
                 FracTimes(Whole(lastFrame.marks - 1), lastFrame.layout.gap))
            = Whole((lastFrame.size * 16) \div 9)

\* seven solid bars on the 1920 wide canvas: 1536 / 49 a bar wide with gaps
\* of 384 / 7
C22_Witness ==
    /\ lastFrame.drawn /\ lastFrame.style = "solid"
    /\ lastFrame.marks = 7 /\ lastFrame.size = 1080
    /\ lastFrame.layout.gap = [num |-> 384, den |-> 7]
    /\ lastFrame.layout.barWidth = [num |-> 11136, den |-> 49]

\* C23: in the mirror modes horizontal and vertical a frame of a bar style
\* makes two bar passes that read the same spectrum samples and start at
\* the same x, the first under the identity and the second under the exact
\* reflection x -> W - x (horizontal) or y -> H - y (vertical) that leaves
\* the other coordinate alone.
C23_MirrorIsReflection ==
    LET W == (lastFrame.size * 16) \div 9
        H == lastFrame.size
        p == lastFrame.passes
    IN  (/\ lastFrame.drawn
         /\ lastFrame.style \in {"gradient", "solid"}
         /\ lastFrame.mirror \in {"horizontal", "vertical"}) =>
          /\ Len(p) = 2
          /\ p[1].m = Identity
          /\ p[2].data = p[1].data /\ p[2].startX = p[1].startX
          /\ \A x \in {0, p[1].startX, W}, y \in {0, H} :
               IF lastFrame.mirror = "horizontal"
               THEN /\ p[2].m.sx * x + p[2].m.tx = W - x
                    /\ p[2].m.sy * y + p[2].m.ty = y
               ELSE /\ p[2].m.sx * x + p[2].m.tx = x
                    /\ p[2].m.sy * y + p[2].m.ty = H - y

\* a horizontally mirrored frame of loud samples on the 1280 wide canvas:
\* both passes start at x = 640 and the second maps x to 1280 - x
C23_Witness ==
    /\ lastFrame.drawn /\ lastFrame.style = "gradient"
    /\ lastFrame.mirror = "horizontal" /\ lastFrame.size = 720
    /\ lastFrame.marks = FrequencyBinCount
    /\ lastFrame.data = "loud"
    /\ lastFrame.passes =
         <<[startX |-> 640, m |-> Identity, data |-> "loud"],
           [startX |-> 640, m |-> [sx |-> -1, tx |-> 1280, sy |-> 1, ty |-> 0],
            data |-> "loud"]>>

\* the draws of the last render that were text
TextOps == {k \in 1..Len(painted.ops) : painted.ops[k].kind = "text"}

\* C24: once a frame with glowIntensity > 0 has been drawn, no draw that
\* is not meant to have a shadow gets one: not the background of a render,
\* not an overlay image, not a text whose shadow flag is off.
C24_NoShadowLeak ==
    (lastFrame.drawn /\ lastFrame.glow > 0) =>
        /\ painted.background = "none"
        /\ \A k \in 1..Len(painted.ops) :
             (painted.ops[k].kind = "image" \/ ~painted.ops[k].flag)
                => painted.ops[k].shadow = "none"

\* C25: every text of a render is drawn with the drop shadow if and only
\* if its own shadow flag is on.
C25_TextShadowFollowsFlag ==
    \A k \in TextOps :
        painted.ops[k].shadow =
            (IF painted.ops[k].flag THEN TextShadowColor ELSE "none")

\* C26: every text of a render has its left edge at its x, so that it
\* covers the box [x, x + measured width] that checkDragStart tests.
C26_TextLeftAligned ==
    \A k \in TextOps : painted.ops[k].left = painted.ops[k].x

\* C27: from a successful drag start until the drag stops, every drag-move
\* to a pointer position p leaves the dragged slot's origin at p minus the
\* offset captured at the drag start.  A dragged slot is an active target
\* whose isDragging is still set.
C27_GrabPointFixed ==
    [][lastEvent'.op = "dragMove" =>
         LET px == PointerX(lastEvent'.before)
             py == PointerY(lastEvent'.before)
         IN  /\ (/\ activeTextOverlay # NoTarget
                 /\ textOverlays[activeTextOverlay].isDragging) =>
                  /\ textOverlays'[activeTextOverlay].x
                       = px - textOverlays[activeTextOverlay].dragOffset.x
                  /\ textOverlays'[activeTextOverlay].y
                       = py - textOverlays[activeTextOverlay].dragOffset.y
             /\ (/\ activeOverlay # NoTarget
                 /\ overlaySettings[activeOverlay].isDragging) =>
                  /\ overlaySettings'[activeOverlay].x
                       = px - overlaySettings[activeOverlay].dragOffset.x
                  /\ overlaySettings'[activeOverlay].y
                       = py - overlaySettings[activeOverlay].dragOffset.y]_vars

\* C28: the position of an overlay slot changes only in a drag-move while
\* the slot is the active drag target, or when a newly loaded image is
\* assigned to the slot; pointer moves without a drag, drag starts and
\* stops, size and opacity inputs, text input, removal and the renders they
\* trigger leave every position as it was.
C28_PositionChangesOnlyByDragOrReset ==
    [][/\ \A i \in 0..1 :
            (\/ textOverlays'[i].x # textOverlays[i].x
             \/ textOverlays'[i].y # textOverlays[i].y)
               => (lastEvent'.op = "dragMove" /\ activeTextOverlay = i)
       /\ \A i \in 0..4 :
            (\/ overlaySettings'[i].x # overlaySettings[i].x
             \/ overlaySettings'[i].y # overlaySettings[i].y)
               => \/ lastEvent'.op = "dragMove" /\ activeOverlay = i
                  \/ lastEvent'.op = "overlayLoaded" /\ lastEvent'.before = i]_vars

\* image slot 4 was enlarged, dragged away from where its upload put it and
\* then removed: it keeps the dragged position
C28_Witness ==
    /\ lastEvent = Event("overlayRemoved", "ok", 4)
    /\ overlayImages[4] = NoImage
    /\ overlaySettings[4].size = 100
    /\ overlaySettings[4].x = 20 - 60 /\ overlaySettings[4].y = 20 - 40

\* C31: when start() is followed by stop() or pause() before the audio
\* setup start() began has resolved, the render loop does not begin
\* afterwards: with stop() or pause() as the last loop-control call and no
\* callback pending, the next step computes no frame and requests no
\* repaint callback unless it is another start().
C31_NoLoopAfterEarlyStop ==
    [][(/\ pendingLoop
        /\ lastEvent.op \in {"visualizer.stop", "visualizer.pause"}
        /\ animationFrameId = 0
        /\ orphanFrames = 0)
       => \/ lastEvent'.op = "visualizer.start"
          \/ /\ lastEvent'.res # "frame"
             /\ animationFrameId' = 0]_vars

\* C32: when background assignments were requested one after another, then
\* once every pending load callback has run the background in effect is the
\* one requested last, in whatever order the callbacks fired, and no other
\* video is attached or playing.
C32_LastRequestWins ==
    (videoLoads = {} /\ imageLoads = {} /\ requested # "null") =>
        /\ Media(backgroundVideo, backgroundImage) = requested
        /\ playing \subseteq {requested}

\* no slot is marked as being dragged
NoSlotDragging ==
    /\ \A i \in 0..1 : ~textOverlays[i].isDragging
    /\ \A i \in 0..4 : ~overlaySettings[i].isDragging

\* at most one target is active and isDragging marks exactly the active slot
DragStateConsistent ==
    /\ activeTextOverlay = NoTarget \/ activeOverlay = NoTarget
    /\ \A i \in 0..1 : textOverlays[i].isDragging <=> activeTextOverlay = i
    /\ \A i \in 0..4 : overlaySettings[i].isDragging <=> activeOverlay = i

\* C33: after any sequence of drag-start, drag-move and drag-stop events
\* at most one of activeTextOverlay and activeOverlay is set, a slot has
\* isDragging exactly when it is the active drag target, and after a
\* drag-stop no slot has isDragging.  The drag state is consistent when the
\* page has loaded, so the claim is that each of the three events keeps it
\* consistent and that a drag-stop leaves no slot marked.
C33_DragStateConsistent ==
    [][(/\ lastEvent'.op \in {"dragStart", "dragMove", "dragStop"}
        /\ DragStateConsistent)
       => /\ DragStateConsistent'
          /\ lastEvent'.op = "dragStop" => NoSlotDragging']_vars

\* C34: for every bar count and spectrum length of at least 1 and every
\* bar i below barsToUse = min(barCount, length), the sample index of bar i
\* lies inside the spectrum and never decreases from one bar to the next,
\* and the colour index of the solid and circle styles lies in 0..2: no
\* draw reads outside the spectrum array or the colour scheme.
C34_IndicesInRange ==
    LET length == BufferLength(lastFrame.data)
        s == lastFrame.samples
        c == lastFrame.colorIndices
    IN  /\ \A k \in 1..Len(s) : s[k] \in 0..(length - 1)
        /\ \A k \in 1..(Len(s) - 1) : s[k] <= s[k + 1]
        /\ \A k \in 1..Len(c) : c[k] \in 0..(SchemeLength - 1)

\* a frame of solid bars with 7 bars over the 256 samples: the last bar
\* reads sample 219 and takes the third colour
C34_Witness ==
    /\ lastFrame.drawn /\ lastFrame.style = "solid"
    /\ Len(lastFrame.samples) = 7
    /\ lastFrame.samples[7] = 219
    /\ lastFrame.colorIndices = <<0, 0, 0, 1, 1, 2, 2>>

=============================================================================
